---- MODULE Spec2Model ----
(***************************************************************************)
(* A model of IndiaNewsBot (src/main.py): fetch_articles, analyze_with_ai, *)
(* fallback_analysis, get_emoji, format_discord_message, send_to_discord   *)
(* and run.  Python strings are TLA+ strings; a value decoded from JSON    *)
(* (and every verdict dict) is a tagged record [j, s, m].  An operator     *)
(* that models a Python function returns a record whose field "raised"     *)
(* names the exception that left the function ("none" when it returned).   *)
(***************************************************************************)
EXTENDS Integers, Sequences, FiniteSets, TLC

VARIABLES pc, feeds, all_articles, articles_with_analysis, payload,
          api_requests, fallback_calls, webhook_posts, webhook_response,
          send_result, escaped, call, result

vars == <<pc, feeds, all_articles, articles_with_analysis, payload,
          api_requests, fallback_calls, webhook_posts, webhook_response,
          send_result, escaped, call, result>>

(***************************************************************************)
(* Bounds of the model.                                                    *)
(***************************************************************************)
\* entries delivered by all feeds together in one run
MaxEntries == 2
\* chunks a generated title is made of
MaxChunks == 3
\* words of a generated article text (title words, then summary words)
MaxWords == 2
\* tokens of a generated reply text of the classification service
MaxTokens == 3

(***************************************************************************)
(* Python string helpers.                                                  *)
(***************************************************************************)
Min(a, b) == IF a < b THEN a ELSE b

UpperLetters == <<"A","B","C","D","E","F","G","H","I","J","K","L","M",
                  "N","O","P","Q","R","S","T","U","V","W","X","Y","Z">>

LowerLetters == <<"a","b","c","d","e","f","g","h","i","j","k","l","m",
                  "n","o","p","q","r","s","t","u","v","w","x","y","z">>

Digits == {"0","1","2","3","4","5","6","7","8","9"}

Range(f) == {f[i] : i \in DOMAIN f}

\* the lower-case letter of each upper-case letter, and the converse
ToLower == [c \in Range(UpperLetters) |-> LowerLetters[CHOOSE i \in 1..26 : UpperLetters[i] = c]]

ToUpper == [c \in Range(LowerLetters) |-> UpperLetters[CHOOSE i \in 1..26 : LowerLetters[i] = c]]

LowerChar(c) == IF c \in DOMAIN ToLower THEN ToLower[c] ELSE c

UpperChar(c) == IF c \in DOMAIN ToUpper THEN ToUpper[c] ELSE c

RECURSIVE Lower(_)
\* str.lower()
Lower(s) == IF s = "" THEN "" ELSE LowerChar(Head(s)) \o Lower(Tail(s))

\* str.capitalize(): first character upper-cased, the rest lower-cased
Capitalize(s) == IF s = "" THEN "" ELSE UpperChar(Head(s)) \o Lower(Tail(s))

\* s[:n]
Truncate(s, n) == SubSeq(s, 1, Min(n, Len(s)))

\* the Python test  w in text  on strings
Contains(text, w) ==
    \E i \in 1..(Len(text) - Len(w) + 1) : SubSeq(text, i, i + Len(w) - 1) = w

\* the regex class \w on the characters the model uses
WordChars == Range(UpperLetters) \cup Range(LowerLetters) \cup Digits \cup {"_"}

IsWordChar(c) == c \in WordChars

IsWordAt(s, k) == k \in 1..Len(s) /\ IsWordChar(SubSeq(s, k, k))

\* the regex assertion \b between positions k and k+1 of s
WordBoundary(s, k) == IsWordAt(s, k) # IsWordAt(s, k + 1)

\* the search without the closing \b
re_search_India_no_closing_boundary(title) ==
    \E i \in 1..(Len(title) - 4) :
        /\ WordBoundary(title, i - 1)
        /\ Lower(SubSeq(title, i, i + 4)) = "india"

\* re.search(r'\bIndia\b', title, re.IGNORECASE) is not None
re_search_India(title) ==
    \E i \in 1..(Len(title) - 4) :
        /\ WordBoundary(title, i - 1)
        /\ Lower(SubSeq(title, i, i + 4)) = "india"
        /\ WordBoundary(title, i + 4)

(***************************************************************************)
(* __init__ and fetch_articles.                                            *)
(***************************************************************************)
news_sources == <<"The Guardian", "New York Times", "Dawn (Pakistan)">>

NumSources == 3

SummaryLimit == 300

\* entry.get(key, default) on a feed entry (a function on the keys present)
EntryGet(entry, key, default) == IF key \in DOMAIN entry THEN entry[key] ELSE default

MakeArticle(source_name, entry) ==
    [source    |-> source_name,
     title     |-> EntryGet(entry, "title", ""),
     link      |-> EntryGet(entry, "link", ""),
     published |-> EntryGet(entry, "published", "Date not available"),
     summary   |-> Truncate(EntryGet(entry, "summary", ""), SummaryLimit)]

RECURSIVE MatchEntries(_, _, _, _)
\* the loop over feed.entries, from entry i on, appending to acc
MatchEntries(source_name, entries, i, acc) ==
    IF i > Len(entries) THEN acc
    ELSE MatchEntries(source_name, entries, i + 1,
            IF re_search_India(EntryGet(entries[i], "title", ""))
            THEN Append(acc, MakeArticle(source_name, entries[i]))
            ELSE acc)

RECURSIVE FetchFrom_abort_on_error(_, _, _)
\* the loop with the try statement around it: the first failing source ends it
FetchFrom_abort_on_error(fs, k, acc) ==
    IF k > NumSources THEN acc
    ELSE IF fs[k].ok
    THEN FetchFrom_abort_on_error(fs, k + 1,
            MatchEntries(news_sources[k], fs[k].entries, 1, acc))
    ELSE acc

RECURSIVE FetchFrom(_, _, _)
\* the loop over news_sources.items(), from source k on; a source whose
\* retrieval or parse raised (ok = FALSE) is caught, logged and skipped
FetchFrom(fs, k, acc) ==
    IF k > NumSources THEN acc
    ELSE FetchFrom(fs, k + 1,
            IF fs[k].ok THEN MatchEntries(news_sources[k], fs[k].entries, 1, acc)
            ELSE acc)

fetch_articles(fs) == FetchFrom(fs, 1, <<>>)

(***************************************************************************)
(* Values decoded from JSON, and the dicts the classifier returns.         *)
(*   j = "string": s is the text;  j = "number": s is the literal;         *)
(*   j = "object": m maps each key present to a value;                     *)
(*   j = "array", "null": nothing else.                                    *)
(***************************************************************************)
NoMap == <<>>

JStr(s) == [j |-> "string", s |-> s, m |-> NoMap]

JNum(lit) == [j |-> "number", s |-> lit, m |-> NoMap]

JNull == [j |-> "null", s |-> "", m |-> NoMap]

JArr == [j |-> "array", s |-> "", m |-> NoMap]

JObj(map) == [j |-> "object", s |-> "", m |-> map]

Verdict(sentiment, category, reasoning) ==
    JObj([k \in {"sentiment", "category", "reasoning"} |->
            CASE k = "sentiment" -> JStr(sentiment)
              [] k = "category"  -> JStr(category)
              [] k = "reasoning" -> JStr(reasoning)])

\* the subscript  value[key]  with a string key
Subscript(value, key) ==
    IF value.j = "object"
    THEN IF key \in DOMAIN value.m
         THEN [raised |-> "none", value |-> value.m[key]]
         ELSE [raised |-> "KeyError", value |-> JNull]
    ELSE [raised |-> "TypeError", value |-> JNull]

(***************************************************************************)
(* fallback_analysis.                                                      *)
(***************************************************************************)
positive_words == <<"success", "growth", "win", "boost", "improve", "achievement", "celebrates">>

negative_words == <<"crisis", "conflict", "concern", "attack", "threat", "decline", "warns">>

politics_words == <<"election", "government", "minister", "parliament", "party">>

economy_words == <<"economy", "trade", "gdp", "market", "business">>

sports_words == <<"cricket", "sport", "match", "olympic">>

technology_words == <<"tech", "digital", "ai", "startup">>

defense_words == <<"military", "defense", "army", "border">>

RECURSIVE CountIn(_, _, _)
\* sum(1 for word in words if word in text), from word i on
CountIn(words, text, i) ==
    IF i > Len(words) THEN 0
    ELSE (IF Contains(text, words[i]) THEN 1 ELSE 0) + CountIn(words, text, i + 1)

\* any(word in text for word in words)
AnyIn(words, text) == \E i \in 1..Len(words) : Contains(text, words[i])

FallbackText(article) == Lower(article.title) \o " " \o Lower(article.summary)

FallbackSentiment(pos_count, neg_count) ==
    IF pos_count > neg_count THEN "positive"
    ELSE IF neg_count > pos_count THEN "negative"
    ELSE "neutral"

\* the chain with the tests of Politics and Economy exchanged
FallbackCategory_economy_first(text) ==
    IF AnyIn(economy_words, text) THEN "Economy"
    ELSE IF AnyIn(politics_words, text) THEN "Politics"
    ELSE IF AnyIn(sports_words, text) THEN "Sports"
    ELSE IF AnyIn(technology_words, text) THEN "Technology"
    ELSE IF AnyIn(defense_words, text) THEN "Defense"
    ELSE "Other"

FallbackCategory(text) ==
    IF AnyIn(politics_words, text) THEN "Politics"
    ELSE IF AnyIn(economy_words, text) THEN "Economy"
    ELSE IF AnyIn(sports_words, text) THEN "Sports"
    ELSE IF AnyIn(technology_words, text) THEN "Technology"
    ELSE IF AnyIn(defense_words, text) THEN "Defense"
    ELSE "Other"

fallback_analysis(article) ==
    LET text == FallbackText(article)
        pos_count == CountIn(positive_words, text, 1)
        neg_count == CountIn(negative_words, text, 1)
    IN  Verdict(FallbackSentiment(pos_count, neg_count),
                FallbackCategory(text),
                "Keyword-based analysis")

(***************************************************************************)
(* analyze_with_ai.  The reply text of the service is a sequence of        *)
(* tokens: "fence_json" (```json), "fence" (```), "ws" (a run of           *)
(* whitespace), "prose" (text that is not JSON) and "doc" (one JSON        *)
(* document, v its decoded value).                                         *)
(***************************************************************************)
Tok(t) == [t |-> t, v |-> JNull]

DocTok(v) == [t |-> "doc", v |-> v]

RECURSIVE StripLeft(_)
StripLeft(text) ==
    IF text # <<>> /\ Head(text).t = "ws" THEN StripLeft(Tail(text)) ELSE text

RECURSIVE StripRight(_)
StripRight(text) ==
    IF text # <<>> /\ text[Len(text)].t = "ws"
    THEN StripRight(SubSeq(text, 1, Len(text) - 1)) ELSE text

\* str.strip()
Strip(text) == StripRight(StripLeft(text))

RECURSIVE SkipWs(_, _)
\* the first position from i on that holds no whitespace
SkipWs(text, i) ==
    IF i <= Len(text) /\ text[i].t = "ws" THEN SkipWs(text, i + 1) ELSE i

RECURSIVE SubFences(_, _, _)
\* re.sub(r'```json\s*|\s*```', '', content), scanning from position i:
\* leftmost match first, first alternative before the second
SubFences(text, i, acc) ==
    IF i > Len(text) THEN acc
    ELSE CASE text[i].t = "fence_json" ->
                SubFences(text, SkipWs(text, i + 1), acc)
           [] text[i].t = "fence" ->
                SubFences(text, i + 1, acc)
           [] text[i].t = "ws" ->
                LET n == SkipWs(text, i) IN
                IF n <= Len(text) /\ text[n].t = "fence"
                THEN SubFences(text, n + 1, acc)
                ELSE IF n <= Len(text) /\ text[n].t = "fence_json"
                \* \s*``` takes the back-ticks of ```json and leaves "json"
                THEN SubFences(text, n + 1, Append(acc, Tok("prose")))
                ELSE SubFences(text, n, acc \o SubSeq(text, i, n - 1))
           [] OTHER ->
                SubFences(text, i + 1, Append(acc, text[i]))

StripCodeFences(text) == Strip(SubFences(Strip(text), 1, <<>>))

\* json.loads(content): one document, nothing else around it
json_loads(content) ==
    IF Len(content) = 1 /\ content[1].t = "doc"
    THEN [raised |-> "none", value |-> content[1].v]
    ELSE [raised |-> "JSONDecodeError", value |-> JNull]

TransportError == [kind |-> "transport_error", status |-> 0, body |-> "", text |-> <<>>]

Response(status, body, text) == [kind |-> "response", status |-> status, body |-> body, text |-> text]

\* the body of the try statement: requests.post, the status test, the
\* decoding of the reply; body is "not_json" (response.json() raises),
\* "no_content" (data['content'] raises), "empty_content"
\* (data['content'][0] raises) or "text"
AnalyzeTry(article, outcome) ==
    IF outcome.kind = "transport_error"
    THEN [raised |-> "RequestException", value |-> JNull, fallbacks |-> 0]
    ELSE IF outcome.status = 200
    THEN CASE outcome.body = "not_json" ->
                [raised |-> "JSONDecodeError", value |-> JNull, fallbacks |-> 0]
           [] outcome.body = "no_content" ->
                [raised |-> "KeyError", value |-> JNull, fallbacks |-> 0]
           [] outcome.body = "empty_content" ->
                [raised |-> "IndexError", value |-> JNull, fallbacks |-> 0]
           [] OTHER ->
                LET analysis == json_loads(StripCodeFences(outcome.text))
                IN  [raised |-> analysis.raised, value |-> analysis.value, fallbacks |-> 0]
    ELSE [raised |-> "none", value |-> fallback_analysis(article), fallbacks |-> 1]

\* the call without the handler: an exception of the try body leaves it
analyze_with_ai_no_handler(article, outcome) ==
    LET body == AnalyzeTry(article, outcome) IN
    [raised |-> body.raised, value |-> body.value,
     requests |-> 1, fallbacks |-> body.fallbacks]

\* analyze_with_ai: the try body, and the handler of  except Exception
analyze_with_ai(article, outcome) ==
    LET body == AnalyzeTry(article, outcome) IN
    IF body.raised = "none"
    THEN [raised |-> "none", value |-> body.value,
          requests |-> 1, fallbacks |-> body.fallbacks]
    ELSE [raised |-> "none", value |-> fallback_analysis(article),
          requests |-> 1, fallbacks |-> body.fallbacks + 1]

(***************************************************************************)
(* get_emoji and format_discord_message.  Emoji are written as their       *)
(* short names.                                                            *)
(***************************************************************************)
Sentiments == {"positive", "negative", "neutral"}

Categories == {"Politics", "Economy", "Sports", "Technology", "Defense", "Diplomacy", "Other"}

sentiment_emoji(sentiment) ==
    CASE sentiment = "positive" -> ":green_circle:"
      [] sentiment = "negative" -> ":red_circle:"
      [] sentiment = "neutral"  -> ":yellow_circle:"

category_emoji(category) ==
    CASE category = "Politics"   -> ":classical_building:"
      [] category = "Economy"    -> ":moneybag:"
      [] category = "Sports"     -> ":soccer:"
      [] category = "Technology" -> ":computer:"
      [] category = "Defense"    -> ":shield:"
      [] category = "Diplomacy"  -> ":handshake:"
      [] category = "Other"      -> ":newspaper:"

color_map(sentiment) ==
    CASE sentiment = "positive" -> 5763719
      [] sentiment = "negative" -> 15548997
      [] sentiment = "neutral"  -> 16776960

DefaultColor == 3447003

HeaderColor == 16744192

TitleLimit == 200

PublishedLimit == 50

ReasoningLimit == 100

\* a list or a dict cannot be the key of a dict lookup
Hashable(value) == value.j \notin {"array", "object"}

IsStrIn(value, keys) == value.j = "string" /\ value.s \in keys

\* a decoded value as it stands in the payload
PyValue(value) == IF value.j = "string" THEN value.s ELSE value

get_emoji(sentiment, category) ==
    IF ~Hashable(sentiment) \/ ~Hashable(category)
    THEN [raised |-> "TypeError", sentiment_emoji |-> "", category_emoji |-> ""]
    ELSE [raised |-> "none",
          sentiment_emoji |-> IF IsStrIn(sentiment, Sentiments)
                              THEN sentiment_emoji(sentiment.s) ELSE ":white_circle:",
          category_emoji  |-> IF IsStrIn(category, Categories)
                              THEN category_emoji(category.s) ELSE ":newspaper:"]

UtcNow == "utcnow().isoformat()"

EmptyDescription == "No articles mentioning India found in the last check."

EmptyEmbed ==
    [title       |-> ":newspaper: News Update",
     description |-> EmptyDescription,
     color       |-> DefaultColor,
     timestamp   |-> UtcNow]

EmptyPayload ==
    [username   |-> "What is World is writng about India?",
     avatar_url |-> "https://flagcdn.com/w160/in.png",
     embeds     |-> <<EmptyEmbed>>]

\* the decimal text of a count, as the f-string of the header prints it
CountText(n) == ToString(n)

HeaderEmbed(n) ==
    [title       |-> ":earth_africa: What is world saying about India",
     description |-> "Found **" \o CountText(n) \o "** articles mentioning India",
     color       |-> HeaderColor,
     timestamp   |-> UtcNow]

NoEmbed == [title |-> "", url |-> "", color |-> 0, fields |-> <<>>, footer |-> [text |-> ""]]

\* the body of the loop over articles_with_analysis for one item
ArticleEmbed(item) ==
    LET article   == item.article
        analysis  == item.analysis
        sentiment == Subscript(analysis, "sentiment")
        category  == Subscript(analysis, "category")
        emoji     == get_emoji(sentiment.value, category.value)
        reasoning == IF "reasoning" \in DOMAIN analysis.m
                     THEN analysis.m["reasoning"] ELSE JStr("")
    IN  IF sentiment.raised # "none" THEN [raised |-> sentiment.raised, embed |-> NoEmbed]
        ELSE IF category.raised # "none" THEN [raised |-> category.raised, embed |-> NoEmbed]
        ELSE IF emoji.raised # "none" THEN [raised |-> emoji.raised, embed |-> NoEmbed]
        ELSE IF sentiment.value.j # "string" THEN [raised |-> "AttributeError", embed |-> NoEmbed]
        ELSE IF reasoning.j \notin {"string", "array"} THEN [raised |-> "TypeError", embed |-> NoEmbed]
        ELSE [raised |-> "none",
              embed  |->
                [title  |-> emoji.category_emoji \o " " \o Truncate(article.title, TitleLimit),
                 url    |-> article.link,
                 color  |-> IF IsStrIn(sentiment.value, Sentiments)
                            THEN color_map(sentiment.value.s) ELSE DefaultColor,
                 fields |-> <<[name |-> ":newspaper: Source",
                               value |-> article.source, inline |-> TRUE],
                              [name |-> emoji.sentiment_emoji \o " Sentiment",
                               value |-> Capitalize(sentiment.value.s), inline |-> TRUE],
                              [name |-> ":label: Category",
                               value |-> PyValue(category.value), inline |-> TRUE],
                              [name |-> ":date: Published",
                               value |-> Truncate(article.published, PublishedLimit),
                               inline |-> FALSE]>>,
                 footer |-> [text |-> IF reasoning.j = "string"
                                      THEN Truncate(reasoning.s, ReasoningLimit)
                                      ELSE reasoning]]]

RECURSIVE ArticleEmbeds(_, _, _)
\* the loop over articles_with_analysis, from item i on; an exception of
\* one item ends the loop
ArticleEmbeds(items, i, embeds) ==
    IF i > Len(items) THEN [raised |-> "none", embeds |-> embeds]
    ELSE LET e == ArticleEmbed(items[i]) IN
         IF e.raised # "none" THEN [raised |-> e.raised, embeds |-> embeds]
         ELSE ArticleEmbeds(items, i + 1, Append(embeds, e.embed))

NoPayload == [username |-> "", avatar_url |-> "", embeds |-> <<>>]

\* the rendering without the header block
format_discord_message_no_header(items) ==
    IF items = <<>>
    THEN [raised |-> "none", value |-> EmptyPayload]
    ELSE LET r == ArticleEmbeds(items, 1, <<>>) IN
         IF r.raised # "none" THEN [raised |-> r.raised, value |-> NoPayload]
         ELSE [raised |-> "none",
               value  |-> [username   |-> "What is world saying about India",
                           avatar_url |-> "https://flagcdn.com/w160/in.png",
                           embeds     |-> r.embeds]]

format_discord_message(items) ==
    IF items = <<>>
    THEN [raised |-> "none", value |-> EmptyPayload]
    ELSE LET r == ArticleEmbeds(items, 1, <<HeaderEmbed(Len(items))>>) IN
         IF r.raised # "none" THEN [raised |-> r.raised, value |-> NoPayload]
         ELSE [raised |-> "none",
               value  |-> [username   |-> "What is world saying about India",
                           avatar_url |-> "https://flagcdn.com/w160/in.png",
                           embeds     |-> r.embeds]]

(***************************************************************************)
(* send_to_discord.                                                        *)
(***************************************************************************)
AcceptedNoContent == 204

WebhookError == [kind |-> "transport_error", status |-> 0]

WebhookStatus(status) == [kind |-> "response", status |-> status]

NoResponse == [kind |-> "none", status |-> 0]

\* the try body taking every 2xx status for a success
SendTry_any_success_status(pl, outcome) ==
    IF outcome.kind = "transport_error"
    THEN [raised |-> "RequestException", value |-> "None"]
    ELSE IF outcome.status \in 200..299
    THEN [raised |-> "none", value |-> "True"]
    ELSE [raised |-> "none", value |-> "False"]

\* the body of the try statement
SendTry(pl, outcome) ==
    IF outcome.kind = "transport_error"
    THEN [raised |-> "RequestException", value |-> "None"]
    ELSE IF outcome.status = AcceptedNoContent
    THEN [raised |-> "none", value |-> "True"]
    ELSE [raised |-> "none", value |-> "False"]

\* one requests.post, and the handler of  except Exception
send_to_discord(pl, outcome) ==
    LET body == SendTry(pl, outcome) IN
    IF body.raised = "none"
    THEN [raised |-> "none", value |-> body.value, posts |-> 1]
    ELSE [raised |-> "none", value |-> "False", posts |-> 1]

(***************************************************************************)
(* The environment: what the feeds, the classification service and the     *)
(* webhook can answer.                                                     *)
(***************************************************************************)
RECURSIVE SeqsUpTo(_, _)
\* the sequences over S of length at most n
SeqsUpTo(S, n) ==
    IF n = 0 THEN {<<>>}
    ELSE LET shorter == SeqsUpTo(S, n - 1) IN
         shorter \cup {Append(q, x) : q \in {r \in shorter : Len(r) = n - 1}, x \in S}

RECURSIVE Concat(_)
\* the concatenation of a sequence of strings
Concat(parts) == IF parts = <<>> THEN "" ELSE Head(parts) \o Concat(Tail(parts))

RECURSIVE Join(_)
\* " ".join(words)
Join(words) ==
    IF words = <<>> THEN ""
    ELSE IF Len(words) = 1 THEN words[1]
    ELSE words[1] \o " " \o Join(Tail(words))

FeedError == [ok |-> FALSE, entries |-> <<>>]

Feed(entries) == [ok |-> TRUE, entries |-> entries]

ScenarioEntry ==
    [title     |-> "India wins cricket World Cup",
     link      |-> "https://example.org/world-cup",
     published |-> "Mon, 02 Nov 2026 10:00:00 GMT",
     summary   |-> "stadium celebrates historic win"]

IndianaEntry ==
    [title     |-> "Indiana hosts conference",
     link      |-> "https://example.org/indiana",
     summary   |-> "Delegates from India attend"]

BareEntry == [title |-> "Border crisis: INDIA warns"]

RunEntries == {ScenarioEntry, IndianaEntry, BareEntry}

\* the ways to deal the entries q to the three sources, keeping their order
Deals(q) ==
    {<<SubSeq(q, 1, c[1]), SubSeq(q, c[1] + 1, c[2]), SubSeq(q, c[2] + 1, Len(q))>> :
        c \in {c \in (0..Len(q)) \X (0..Len(q)) : c[1] <= c[2]}}

\* the feeds of a run: at most MaxEntries entries, dealt to the three
\* sources in order; a source that delivers nothing may also have failed
RunFeeds ==
    UNION {{[k \in 1..NumSources |-> IF k \in failed THEN FeedError ELSE Feed(d[k])] :
                failed \in SUBSET {k \in 1..NumSources : d[k] = <<>>}} :
            d \in UNION {Deals(q) : q \in SeqsUpTo(RunEntries, MaxEntries)}}

TitleChunks == {"India", "iNdIa", "Ind", "ia", "n", " ", "_"}

GeneratedTitles == {Concat(q) : q \in SeqsUpTo(TitleChunks, MaxChunks)}

\* one entry with a generated title (or none), the keyword in its summary
TitleEntries ==
    {[title |-> t, summary |-> "India in the summary"] : t \in GeneratedTitles}
        \cup {[summary |-> "India in the summary"]}

TitleFeeds ==
    {[k \in 1..NumSources |-> IF k = at THEN Feed(<<e>>) ELSE Feed(<<>>)] :
        e \in TitleEntries, at \in 1..NumSources}

ValidReply == Verdict("neutral", "Diplomacy", "Routine bilateral talks")

OutOfEnumReply == Verdict("mixed", "Culture", "Both good and bad news")

NumberSentimentReply ==
    JObj([k \in {"sentiment", "category", "reasoning"} |->
            CASE k = "sentiment" -> JNum("1")
              [] k = "category"  -> JStr("Politics")
              [] k = "reasoning" -> JStr("Score of one")])

NoSentimentReply ==
    JObj([k \in {"category", "reasoning"} |->
            CASE k = "category"  -> JStr("Economy")
              [] k = "reasoning" -> JStr("Trade figures")])

NoReasoningReply ==
    JObj([k \in {"sentiment", "category"} |->
            CASE k = "sentiment" -> JStr("positive")
              [] k = "category"  -> JStr("Economy")])

ReplyDocs == {ValidReply, OutOfEnumReply, NumberSentimentReply, NoSentimentReply,
              NoReasoningReply, JArr}

ReplyTokens == {Tok("fence_json"), Tok("fence"), Tok("ws"), Tok("prose")}
                   \cup {DocTok(v) : v \in ReplyDocs}

FailureStatuses == {401, 429, 500}

\* the outcomes of the classification request a run meets
ApiOutcomes ==
    {TransportError,
     Response(500, "text", <<>>),
     Response(200, "text", <<Tok("fence_json"), Tok("ws"), DocTok(ValidReply), Tok("ws"), Tok("fence")>>),
     Response(200, "text", <<DocTok(OutOfEnumReply)>>),
     Response(200, "text", <<DocTok(NumberSentimentReply)>>),
     Response(200, "text", <<DocTok(NoSentimentReply)>>)}

WebhookOutcomes == {WebhookError, WebhookStatus(204), WebhookStatus(200), WebhookStatus(404)}

(***************************************************************************)
(* run.  One action per network round of run: the fetch, one               *)
(* classification per article, the publication.                            *)
(***************************************************************************)
NoCall == [article |-> MakeArticle("", <<>>), outcome |-> TransportError]

NoResult == [raised |-> "none", value |-> JNull, requests |-> 0, fallbacks |-> 0]

Init ==
    /\ pc = "start"
    /\ feeds \in RunFeeds \cup TitleFeeds
    /\ all_articles = <<>>
    /\ articles_with_analysis = <<>>
    /\ payload = NoPayload
    /\ api_requests = 0
    /\ fallback_calls = 0
    /\ webhook_posts = 0
    /\ webhook_response = NoResponse
    /\ send_result = "None"
    /\ escaped = "none"
    /\ call = NoCall
    /\ result = NoResult

\* the feeds parsed by fetch_articles are its locals: gone when run goes on
NoFeeds == [k \in 1..NumSources |-> Feed(<<>>)]

\* articles = self.fetch_articles()
RunFetch ==
    /\ pc = "start"
    /\ all_articles' = fetch_articles(feeds)
    /\ pc' = "fetched"
    /\ UNCHANGED <<feeds, articles_with_analysis, payload, api_requests, fallback_calls,
                   webhook_posts, webhook_response, send_result, escaped, call, result>>

\* the empty branch without its return: run goes on through the empty loop
\* to the second format_discord_message and send_to_discord
RunPublishEmpty_no_return ==
    /\ pc = "fetched"
    /\ all_articles = <<>>
    /\ \E outcome \in WebhookOutcomes :
       \E f \in {format_discord_message(<<>>)} :
       \E r \in {send_to_discord(f.value, outcome)} :
         /\ payload' = f.value
         /\ webhook_response' = outcome
         /\ webhook_posts' = webhook_posts + r.posts + r.posts
         /\ send_result' = r.value
         /\ escaped' = r.raised
         /\ pc' = IF r.raised = "none" THEN "done" ELSE "crashed"
    /\ feeds' = NoFeeds
    /\ UNCHANGED <<all_articles, articles_with_analysis, api_requests,
                   fallback_calls, call, result>>

\* if not articles: format_discord_message([]), send_to_discord, return
RunPublishEmpty ==
    /\ pc = "fetched"
    /\ all_articles = <<>>
    /\ \E outcome \in WebhookOutcomes :
       \E f \in {format_discord_message(<<>>)} :
       \E r \in {send_to_discord(f.value, outcome)} :
         /\ payload' = f.value
         /\ webhook_response' = outcome
         /\ webhook_posts' = webhook_posts + r.posts
         /\ send_result' = r.value
         /\ escaped' = r.raised
         /\ pc' = IF r.raised = "none" THEN "done" ELSE "crashed"
    /\ feeds' = NoFeeds
    /\ UNCHANGED <<all_articles, articles_with_analysis, api_requests,
                   fallback_calls, call, result>>

\* the first exception among the steps of one round of the loop of run
FirstRaised(r, sentiment, category) ==
    IF r.raised # "none" THEN r.raised
    ELSE IF sentiment.raised # "none" THEN sentiment.raised
    ELSE category.raised

\* one round of  for article in articles: analyze_with_ai, the print of
\* analysis['sentiment'] and analysis['category'], the append
RunAnalyze ==
    /\ pc \in {"fetched", "analyzing"}
    /\ Len(articles_with_analysis) < Len(all_articles)
    /\ \E outcome \in ApiOutcomes :
       \E article \in {all_articles[Len(articles_with_analysis) + 1]} :
       \E r \in {analyze_with_ai(article, outcome)} :
       \E raised \in {FirstRaised(r, Subscript(r.value, "sentiment"),
                                     Subscript(r.value, "category"))} :
         /\ api_requests' = api_requests + r.requests
         /\ fallback_calls' = fallback_calls + r.fallbacks
         /\ escaped' = raised
         /\ IF raised = "none"
            THEN /\ articles_with_analysis' =
                        Append(articles_with_analysis,
                               [article |-> article, analysis |-> r.value])
                 /\ pc' = "analyzing"
            ELSE /\ articles_with_analysis' = articles_with_analysis
                 /\ pc' = "crashed"
    /\ feeds' = NoFeeds
    /\ UNCHANGED <<all_articles, payload, webhook_posts, webhook_response,
                   send_result, call, result>>

\* payload = format_discord_message(articles_with_analysis); send_to_discord
RunPublish ==
    /\ pc = "analyzing"
    /\ Len(articles_with_analysis) = Len(all_articles)
    /\ \E outcome \in WebhookOutcomes :
       \E f \in {format_discord_message(articles_with_analysis)} :
       \E r \in {send_to_discord(f.value, outcome)} :
         IF f.raised # "none"
         THEN /\ escaped' = f.raised
              /\ pc' = "crashed"
              /\ UNCHANGED <<payload, webhook_response, webhook_posts, send_result>>
         ELSE /\ payload' = f.value
              /\ webhook_response' = outcome
              /\ webhook_posts' = webhook_posts + r.posts
              /\ send_result' = r.value
              /\ escaped' = r.raised
              /\ pc' = IF r.raised = "none" THEN "done" ELSE "crashed"
    /\ UNCHANGED <<feeds, all_articles, articles_with_analysis, api_requests,
                   fallback_calls, call, result>>

Next == RunFetch \/ RunPublishEmpty \/ RunAnalyze \/ RunPublish

Spec == Init /\ [][Next]_vars

(***************************************************************************)
(* analyze_with_ai on its own: one call on an article and an outcome of    *)
(* the request, drawn from generated article texts and generated replies.  *)
(***************************************************************************)
Vocabulary == {"Wins", "success", "celebrates", "CRISIS", "warns", "attack",
               "election", "trade", "cricket", "startup", "Mumbai", "army",
               "India", "talks"}

\* an article whose title is the first half of the words, its summary the rest
WordArticle(q) ==
    [source    |-> "The Guardian",
     title     |-> Join(SubSeq(q, 1, (Len(q) + 1) \div 2)),
     link      |-> "https://example.org/article",
     published |-> "Date not available",
     summary   |-> Join(SubSeq(q, (Len(q) + 1) \div 2 + 1, Len(q)))]

ScenarioArticle == MakeArticle("The Guardian", ScenarioEntry)

WordArticles == {WordArticle(q) : q \in SeqsUpTo(Vocabulary, MaxWords)} \cup {ScenarioArticle}

FailureOutcomes == {TransportError, Response(500, "text", <<>>)}

ReplyOutcomes ==
    {TransportError}
        \cup {Response(st, "text", <<>>) : st \in FailureStatuses}
        \cup {Response(200, b, <<>>) : b \in {"not_json", "no_content", "empty_content"}}
        \cup {Response(200, "text", t) : t \in SeqsUpTo(ReplyTokens, MaxTokens)}

ClassifyCalls ==
    {[article |-> a, outcome |-> o] : a \in WordArticles, o \in FailureOutcomes}
        \cup {[article |-> a, outcome |-> o] :
                a \in {WordArticle(<<>>), ScenarioArticle}, o \in ReplyOutcomes}

InitClassify ==
    /\ pc = "call"
    /\ call \in ClassifyCalls
    /\ result = NoResult
    /\ feeds = NoFeeds
    /\ all_articles = <<>>
    /\ articles_with_analysis = <<>>
    /\ payload = NoPayload
    /\ api_requests = 0
    /\ fallback_calls = 0
    /\ webhook_posts = 0
    /\ webhook_response = NoResponse
    /\ send_result = "None"
    /\ escaped = "none"

\* analysis = self.analyze_with_ai(article)
CallAnalyze ==
    /\ pc = "call"
    /\ result' = analyze_with_ai(call.article, call.outcome)
    /\ api_requests' = api_requests + result'.requests
    /\ fallback_calls' = fallback_calls + result'.fallbacks
    /\ escaped' = result'.raised
    /\ pc' = "returned"
    /\ UNCHANGED <<call, feeds, all_articles, articles_with_analysis, payload,
                   webhook_posts, webhook_response, send_result>>

NextClassify == CallAnalyze

SpecClassify == InitClassify /\ [][NextClassify]_vars

(***************************************************************************)
(* Properties of analyze_with_ai and fallback_analysis (SpecClassify).     *)
(***************************************************************************)
ExpectedFields == {"sentiment", "category", "reasoning"}

\* the request got status 200 and a reply text that, once the code fences
\* are stripped, is a JSON object carrying sentiment, category and reasoning
WellFormedReply(outcome) ==
    /\ outcome.kind = "response"
    /\ outcome.status = 200
    /\ outcome.body = "text"
    /\ LET content == StripCodeFences(outcome.text) IN
       /\ Len(content) = 1
       /\ content[1].t = "doc"
       /\ content[1].v.j = "object"
       /\ ExpectedFields \subseteq DOMAIN content[1].v.m

\* the request ended in a transport error or a status other than 200
RequestFailed(outcome) == outcome.kind = "transport_error" \/ outcome.status # 200

\* C1: analyze_with_ai never raises: for every article with string title
\* and summary (both empty included) and every outcome of the request, the
\* call returns a value and no exception leaves it.
C1_NeverRaises ==
    pc = "returned" =>
        /\ result.raised = "none"
        /\ escaped = "none"

C1_Witness ==
    /\ pc = "returned"
    /\ call.article.title = ""
    /\ call.article.summary = ""
    /\ call.outcome.kind = "response"
    /\ call.outcome.status = 200
    /\ call.outcome.body = "not_json"
    /\ result.raised = "none"

\* C2: whenever the request ends in a non-success status, a transport
\* error, or a reply that is not a JSON object with all three fields,
\* analyze_with_ai returns exactly fallback_analysis(article), after a
\* single request.
C2_FailureGivesFallback ==
    (pc = "returned" /\ ~WellFormedReply(call.outcome)) =>
        /\ result.value = fallback_analysis(call.article)
        /\ result.requests = 1
        /\ api_requests = 1

CategoryPriority ==
    <<[name |-> "Politics",   words |-> {"election", "government", "minister", "parliament", "party"}],
      [name |-> "Economy",    words |-> {"economy", "trade", "gdp", "market", "business"}],
      [name |-> "Sports",     words |-> {"cricket", "sport", "match", "olympic"}],
      [name |-> "Technology", words |-> {"tech", "digital", "ai", "startup"}],
      [name |-> "Defense",    words |-> {"military", "defense", "army", "border"}]>>

PositiveWordSet == {"success", "growth", "win", "boost", "improve", "achievement", "celebrates"}

NegativeWordSet == {"crisis", "conflict", "concern", "attack", "threat", "decline", "warns"}

\* the number of words of the list that occur in the text
WordCount(words, text) == Cardinality({w \in words : Contains(text, w)})

ReferenceSentiment(text) ==
    CASE WordCount(PositiveWordSet, text) > WordCount(NegativeWordSet, text) -> "positive"
      [] WordCount(NegativeWordSet, text) > WordCount(PositiveWordSet, text) -> "negative"
      [] OTHER -> "neutral"

ReferenceCategory(text) ==
    LET hits == {i \in 1..Len(CategoryPriority) :
                    \E w \in CategoryPriority[i].words : Contains(text, w)}
    IN  IF hits = {} THEN "Other"
        ELSE CategoryPriority[CHOOSE i \in hits : \A h \in hits : i <= h].name

\* the reference verdict, a function of the lowercase title+summary text
ReferenceVerdict(text) ==
    Verdict(ReferenceSentiment(text), ReferenceCategory(text), "Keyword-based analysis")

\* C10: the verdict of the fallback path equals the reference (sentiment
\* by comparing the counts of positive and negative words, category by
\* the first of Politics, Economy, Sports, Technology, Defense having a
\* keyword, else Other, reasoning the fixed marker) computed from the
\* lowercase title+summary text alone, whatever way the request failed;
\* the World Cup article gets sentiment positive and category Sports.
C10_FallbackReference ==
    (pc = "returned" /\ RequestFailed(call.outcome)) =>
        /\ result.value =
              ReferenceVerdict(Lower(call.article.title \o " " \o call.article.summary))
        /\ result.fallbacks = 1
        /\ call.article = ScenarioArticle =>
              /\ result.value.m["sentiment"] = JStr("positive")
              /\ result.value.m["category"] = JStr("Sports")

C10_Witness ==
    /\ pc = "returned"
    /\ call.article = ScenarioArticle
    /\ call.outcome = Response(500, "text", <<>>)
    /\ result.value = Verdict("positive", "Sports", "Keyword-based analysis")

(***************************************************************************)
(* Properties of run (Spec).                                               *)
(***************************************************************************)
\* every article has its verdict and the loop of run is over
ReachedRenderer ==
    /\ pc \in {"analyzing", "done"}
    /\ Len(articles_with_analysis) = Len(all_articles)

InEnumerations(analysis) ==
    /\ analysis.j = "object"
    /\ {"sentiment", "category"} \subseteq DOMAIN analysis.m
    /\ analysis.m["sentiment"].j = "string"
    /\ analysis.m["sentiment"].s \in Sentiments
    /\ analysis.m["category"].j = "string"
    /\ analysis.m["category"].s \in Categories

\* C3: every verdict that reaches the renderer has its sentiment in
\* {positive, negative, neutral} and its category among the seven
\* categories, whichever path produced it and whatever the service replied.
C3_VerdictsInEnumerations ==
    ReachedRenderer =>
        \A i \in DOMAIN articles_with_analysis :
            InEnumerations(articles_with_analysis[i].analysis)

\* the title holds "india", in any case, as a maximal run of word characters
KeywordPredicate(title) ==
    \E i \in 1..Len(title) :
        /\ i + 4 <= Len(title)
        /\ \A k \in i..(i + 4) : IsWordChar(SubSeq(title, k, k))
        /\ i = 1 \/ ~IsWordChar(SubSeq(title, i - 1, i - 1))
        /\ i + 4 = Len(title) \/ ~IsWordChar(SubSeq(title, i + 5, i + 5))
        /\ Lower(SubSeq(title, i, i + 4)) = "india"

EntryTitle(entry) == IF "title" \in DOMAIN entry THEN entry["title"] ELSE ""

\* the places (source, position) of the entries the feeds delivered
EntryPlaces == {p \in (1..NumSources) \X (1..MaxEntries) :
                    feeds[p[1]].ok /\ p[2] <= Len(feeds[p[1]].entries)}

\* C4: fetch_articles returns an article for a feed entry if and only if
\* the title of the entry contains "India" as a whole word, in any case
\* (the summary plays no part), so every article that run pairs with a
\* verdict satisfies the keyword predicate.
C4_KeywordMatch ==
    /\ pc = "fetched" =>
        /\ \A p \in EntryPlaces :
              LET entry == feeds[p[1]].entries[p[2]] IN
              KeywordPredicate(EntryTitle(entry)) <=>
                  \E n \in DOMAIN all_articles :
                      /\ all_articles[n].source = news_sources[p[1]]
                      /\ all_articles[n].title = EntryTitle(entry)
        /\ Len(all_articles) =
              Cardinality({p \in EntryPlaces :
                              KeywordPredicate(EntryTitle(feeds[p[1]].entries[p[2]]))})
    /\ \A n \in DOMAIN articles_with_analysis :
          /\ KeywordPredicate(articles_with_analysis[n].article.title)
          /\ articles_with_analysis[n].article = all_articles[n]

C4_Witness ==
    /\ pc = "fetched"
    /\ \E k \in 1..NumSources :
          /\ Len(feeds[k].entries) = 2
          /\ feeds[k].entries[1] = IndianaEntry
          /\ feeds[k].entries[2] = BareEntry
    /\ Len(all_articles) = 1

\* C5: when fetch_articles yields no article, run never invokes the
\* classifier (no request, no fallback) and invokes the publisher exactly
\* once, with the payload of one block carrying the fixed description.
C5_EmptyRun ==
    (pc # "start" /\ all_articles = <<>>) =>
        /\ api_requests = 0
        /\ fallback_calls = 0
        /\ articles_with_analysis = <<>>
        /\ webhook_posts = (IF pc = "done" THEN 1 ELSE 0)
        /\ pc = "done" =>
              /\ Len(payload.embeds) = 1
              /\ payload.embeds[1].description = EmptyDescription

C5_Witness ==
    /\ pc = "done"
    /\ all_articles = <<>>
    /\ api_requests = 0
    /\ webhook_posts = 1
    /\ payload.embeds[1].description = EmptyDescription

\* C6: in every run no exception escapes run: the run goes through the
\* classification of every article to rendering and invokes the publisher
\* exactly once before it finishes.
C6_NoExceptionEscapesRun ==
    /\ escaped = "none"
    /\ pc # "crashed"
    /\ pc = "done" => webhook_posts = 1

\* C7: send_to_discord makes one delivery attempt and returns true if and
\* only if the webhook answered 204; for any other status and for a
\* transport error it returns false, raises nothing, and run completes.
C7_PublishResult ==
    /\ webhook_posts <= 1
    /\ webhook_posts = 1 =>
          /\ pc = "done"
          /\ escaped = "none"
          /\ send_result \in {"True", "False"}
          /\ send_result = "True" <=>
                (webhook_response.kind = "response" /\ webhook_response.status = 204)
    /\ pc = "done" => webhook_posts = 1

C7_Witness ==
    /\ pc = "done"
    /\ webhook_posts = 1
    /\ webhook_response.kind = "transport_error"
    /\ send_result = "False"
    /\ all_articles # <<>>

StringVerdict(analysis) ==
    /\ analysis.j = "object"
    /\ {"sentiment", "category"} \subseteq DOMAIN analysis.m
    /\ analysis.m["sentiment"].j = "string"
    /\ analysis.m["category"].j = "string"
    /\ "reasoning" \in DOMAIN analysis.m => analysis.m["reasoning"].j = "string"

\* the loop of run is over (or there was nothing to loop over) and the
\* verdicts handed to format_discord_message have string fields
RenderCalled ==
    /\ pc \in {"done", "crashed"}
    /\ Len(articles_with_analysis) = Len(all_articles)
    /\ \A i \in DOMAIN articles_with_analysis :
          StringVerdict(articles_with_analysis[i].analysis)

\* C8: format_discord_message on an empty list gives one block with the
\* fixed empty-state description; on N >= 1 analyzed items (verdicts whose
\* fields are strings, in or out of the enumerations) it returns N+1
\* blocks, the header first, then one block per item in input order, the
\* i-th built from the article and the verdict of the i-th item.
C8_RenderedBlocks ==
    RenderCalled =>
        /\ pc = "done"
        /\ IF articles_with_analysis = <<>>
           THEN /\ Len(payload.embeds) = 1
                /\ payload.embeds[1].description = EmptyDescription
           ELSE /\ Len(payload.embeds) = Len(articles_with_analysis) + 1
                /\ "description" \in DOMAIN payload.embeds[1]
                /\ payload.embeds[1].color = HeaderColor
                /\ \A i \in DOMAIN articles_with_analysis :
                      LET item  == articles_with_analysis[i]
                          block == payload.embeds[i + 1]
                      IN  /\ "fields" \in DOMAIN block
                          /\ block.url = item.article.link
                          /\ Contains(block.title, item.article.title)
                          /\ block.fields[1].value = item.article.source
                          /\ Lower(block.fields[2].value) =
                                Lower(item.analysis.m["sentiment"].s)
                          /\ block.fields[3].value = item.analysis.m["category"].s

C8_Witness ==
    /\ pc = "done"
    /\ Len(articles_with_analysis) = 2
    /\ Len(payload.embeds) = 3
    /\ articles_with_analysis[1].article.title # articles_with_analysis[2].article.title
    /\ articles_with_analysis[1].analysis # articles_with_analysis[2].analysis

\* the matching entries of source k, in feed order, as articles
SourceArticles(k) ==
    LET matching == SelectSeq(feeds[k].entries,
                              LAMBDA e : re_search_India(EntryTitle(e)))
    IN  [i \in 1..Len(matching) |-> MakeArticle(news_sources[k], matching[i])]

\* C9: an error of one source never aborts the fetch: the returned list
\* holds the matching entries of the surviving sources, sources in mapping
\* order and entries within a source in feed order.
C9_FetchIsolation ==
    pc = "fetched" =>
        all_articles =
            (IF feeds[1].ok THEN SourceArticles(1) ELSE <<>>)
                \o (IF feeds[2].ok THEN SourceArticles(2) ELSE <<>>)
                \o (IF feeds[3].ok THEN SourceArticles(3) ELSE <<>>)

C9_Witness ==
    /\ pc = "fetched"
    /\ ~feeds[1].ok
    /\ feeds[2].entries = <<BareEntry, ScenarioEntry>>
    /\ Len(all_articles) = 2
    /\ all_articles[1].title = "Border crisis: INDIA warns"
    /\ all_articles[2].source = "New York Times"

====
